---- MODULE Spec2Model ----
(***************************************************************************)
(* Order reconciliation of the Apex Labs checkout: the Stripe and PayPal   *)
(* checkout initiators, the PayPal capture endpoint and the two webhook    *)
(* handlers, acting on the Firestore 'orders' collection and the           *)
(* users/{uid}/orders history collection.                                  *)
(*                                                                         *)
(* Request handlers are split where they await the payment processor, so   *)
(* that a webhook can run between the processor call and the handler's     *)
(* Firestore writes.  Webhook handlers run as one step each.               *)
(***************************************************************************)
EXTENDS Integers, Sequences, FiniteSets, TLC

\* ------------------------------------------------------------------ bounds
\* order ids handed out, and processor objects created, in one run
MaxOrders == 2
\* last value of the Firestore server clock (it starts at 1)
MaxClock == 2
\* largest amount, in whole dollars, the processor charges for a session
MaxAmount == 2
\* checkout sessions a buyer can open from one payment link
MaxLinkSessions == 2
\* checkouts in the runs that record responses and advance the clock
MaxObserved == 1
\* largest quantity of a cart item
MaxQuantity == 26
\* largest number of items in a cart
MaxItems == 2
\* largest unit price, in dollars, a client writes into a cart item
MaxClientPrice == 2
\* largest number of entries of a stored cart
MaxStored == 2
\* calls on the page's Cart in one run
MaxCalls == 2
\* listeners subscribed to the page's Cart
MaxListeners == 2

\* ------------------------------------------------------------- constants
\* JavaScript null / an absent field.  Ids, amounts and timestamps are >= 1.
Null == 0
\* Stripe amounts are in cents: amount_total / 100 is the dollar amount
CentsPerDollar == 100
\* a field that is not there, where the fields that are hold strings
Undefined == "undefined"
\* id spaces of the Stripe objects an order's stripeSessionId can hold
PaymentLinkBase == 1000
LinkSessionBase == 2000
LinkSessionStride == 10

Users == {1}
\* req.body.customerEmail: absent, or an address (the addresses are numbered)
Emails == {Null, 1}
\* the requests of the runs in which every buyer gives an address
WithEmail == Emails \ {Null}
Amounts == 1..MaxAmount

VARIABLES
    orders,        \* Firestore 'orders': order id -> document
    history,       \* Firestore users/{uid}/orders/{orderId}: <<uid, id>> -> document
    clock,         \* Firestore server time (FieldValue.serverTimestamp())
    nextOrderId,   \* ids handed out so far by db.collection('orders').doc()
    sessions,      \* the processors' objects: Stripe sessions, payment links, PayPal orders
    init,          \* the checkout initiator request in flight, or Idle
    cap,           \* the capture request in flight, or Idle
    webhookIdSet,  \* whether process.env.PAYPAL_WEBHOOK_ID is configured
    acked,         \* <<processor object, type>> of the verified Stripe events answered 200
    resp,          \* the outcome of the last step: endpoint, HTTP status, authenticity check
    storage,       \* localStorage['apex_labs_cart'], shared by the tabs of the browser
    cart,          \* this.cart of the page's Cart (js/cart.js)
    listeners,     \* this.listeners of the page's Cart: what each callback does
    productData,   \* this.productData of the page's Cart: "none" until the catalog is fetched
    effects,       \* what the last call on the Cart did, in order
    ended,         \* how the last call on the Cart ended: "returned" or "threw"
    managerCart,   \* CartManager.cart (assets/js/cart-manager.js)
    storageEvent,  \* whether a storage event of another tab's write awaits this tab
    calls          \* calls made on the Cart so far

\* the browser's part of the state
cartVars == <<storage, cart, listeners, productData, effects, ended,
              managerCart, storageEvent, calls>>

vars == <<orders, history, clock, nextOrderId, sessions, init, cap,
          webhookIdSet, acked, resp, cartVars>>

Idle == [path |-> "idle"]
NoResp == [ep |-> "none", code |-> 0, verify |-> "na"]
Resp(ep, code, verify) == [ep |-> ep, code |-> code, verify |-> verify]

Min(S) == CHOOSE x \in S : \A y \in S : x <= y

\* --------------------------------------------------------- processor ids
\* A plain checkout session k has id k; a payment link k has its own id; the
\* j-th checkout session a buyer opens from link k has yet another id.
PaymentLinkId(k) == PaymentLinkBase + k
LinkSessionId(k, j) == LinkSessionBase + LinkSessionStride * k + j

\* --------------------------------------------------------- Firestore docs
\* ref.update(updates): the named fields are overwritten, the others kept
Update(doc, updates) ==
    [f \in DOMAIN doc |-> IF f \in DOMAIN updates THEN updates[f] ELSE doc[f]]

\* a set that writes nothing once the collection holds a document
SetDoc_Dedup(c, id, doc) ==
    IF DOMAIN c # {} THEN c ELSE [x \in {id} |-> doc]

\* ref.set(doc) on collection c
SetDoc(c, id, doc) == [x \in DOMAIN c \cup {id} |-> IF x = id THEN doc ELSE c[x]]

\* where(field, '==', value).limit(1).get(): the first match in id order, or Null
FindBy(ords, field, value) ==
    LET m == {o \in DOMAIN ords : ords[o][field] = value}
    IN IF m = {} THEN Null ELSE Min(m)

\* doc() handing out the id it handed out last
NewOrderId_Reused == IF nextOrderId = 0 THEN 1 ELSE nextOrderId

\* db.collection('orders').doc(): a new auto-generated id
NewOrderId == nextOrderId + 1

\* the pending order document the initiators write
PendingOrder(stripeSessionId, paypalOrderId, userId, now) ==
    [status |-> "pending",
     stripeSessionId |-> stripeSessionId,
     paypalOrderId |-> paypalOrderId,
     stripePaymentIntentId |-> Null,
     paypalCaptureId |-> Null,
     userId |-> userId,
     amountTotal |-> Null,
     refundedAmount |-> Null,
     createdAt |-> now,
     updatedAt |-> now,
     paidAt |-> Null,
     refundedAt |-> Null]

\* the summary mirrored into the owner's history when an order is paid
HistoryRecord(orderId, orderData, amountTotal, paidAt) ==
    [orderId |-> orderId,
     status |-> "paid",
     amountTotal |-> amountTotal,
     createdAt |-> orderData.createdAt,
     paidAt |-> paidAt]

\* ------------------------------------------------- Stripe webhook handlers
\* A Stripe event as the handlers read it.  session is the id of the checkout
\* session; its payment intent, and the charge's payment_intent, carry the same
\* number.  metaOrderId is session.metadata.orderId, amountCents is
\* session.amount_total or charge.amount, refundedCents is charge.amount_refunded.
StripeTypes == {"checkout.session.completed", "checkout.session.expired",
                "payment_intent.payment_failed", "charge.refunded", "other"}

PaymentIntentOf(session) == session

\* an updateOrderLookup that creates the order its metadata names when it
\* finds none (a set with merge in place of the update)
updateOrderLookup_Upsert(ords, e, updates, now) ==
    LET bySession == FindBy(ords, "stripeSessionId", e.session)
        orderId == IF bySession # Null THEN bySession ELSE e.metaOrderId
        prior == IF orderId \in DOMAIN ords THEN ords[orderId]
                 ELSE PendingOrder(e.session, Null, Null, now)
    IN IF orderId = Null
       THEN [orders |-> ords, orderId |-> Null]
       ELSE [orders |-> SetDoc(ords, orderId,
                               Update(prior, [updatedAt |-> now] @@ updates)),
             orderId |-> orderId]

\* updateOrderLookup(session, updates): [orders, orderId]
updateOrderLookup(ords, e, updates, now) ==
    LET bySession == FindBy(ords, "stripeSessionId", e.session)
        byMeta == IF bySession = Null /\ e.metaOrderId # Null /\ e.metaOrderId \in DOMAIN ords
                  THEN e.metaOrderId ELSE Null
        orderId == IF bySession # Null THEN bySession ELSE byMeta
        upd == IF bySession = Null /\ byMeta # Null
               THEN updates @@ [stripeSessionId |-> e.session]
               ELSE updates
    IN IF orderId = Null
       THEN [orders |-> ords, orderId |-> Null]
       ELSE [orders |-> [ords EXCEPT ![orderId] =
                            Update(@, [updatedAt |-> now] @@ upd)],
             orderId |-> orderId]

\* handleCheckoutComplete(session)
handleCheckoutComplete(st, e, now) ==
    LET updates == [status |-> "paid",
                    amountTotal |-> e.amountCents \div CentsPerDollar,
                    stripePaymentIntentId |-> PaymentIntentOf(e.session),
                    paidAt |-> now]
        r == updateOrderLookup(st.orders, e, updates, now)
        orderData == r.orders[r.orderId]
    IN IF r.orderId = Null
       THEN st
       ELSE [orders |-> r.orders,
             history |-> IF orderData.userId # Null
                         THEN SetDoc(st.history, <<orderData.userId, r.orderId>>,
                                     HistoryRecord(r.orderId, orderData,
                                                   updates.amountTotal, updates.paidAt))
                         ELSE st.history]

\* handleCheckoutExpired(session)
handleCheckoutExpired(st, e, now) ==
    [orders |-> updateOrderLookup(st.orders, e, [status |-> "expired"], now).orders,
     history |-> st.history]

\* handlePaymentFailed(paymentIntent)
handlePaymentFailed(st, e, now) ==
    LET o == FindBy(st.orders, "stripePaymentIntentId", PaymentIntentOf(e.session))
    IN IF o = Null
       THEN st
       ELSE [orders |-> [st.orders EXCEPT ![o] =
                            Update(@, [status |-> "payment_failed", updatedAt |-> now])],
             history |-> st.history]

\* handleChargeRefunded(charge)
handleChargeRefunded(st, e, now) ==
    LET o == FindBy(st.orders, "stripePaymentIntentId", PaymentIntentOf(e.session))
        isFullRefund == e.refundedCents = e.amountCents
    IN IF o = Null
       THEN st
       ELSE [orders |-> [st.orders EXCEPT ![o] =
                            Update(@, [status |-> IF isFullRefund THEN "refunded"
                                                  ELSE "partially_refunded",
                                       refundedAmount |-> e.refundedCents \div CentsPerDollar,
                                       refundedAt |-> now,
                                       updatedAt |-> now])],
             history |-> st.history]

\* a switch whose default case treats the event as an expiry
StripeDispatch_DefaultExpires(st, e, now) ==
    CASE e.type = "checkout.session.completed" -> handleCheckoutComplete(st, e, now)
      [] e.type = "payment_intent.payment_failed" -> handlePaymentFailed(st, e, now)
      [] e.type = "charge.refunded" -> handleChargeRefunded(st, e, now)
      [] OTHER -> handleCheckoutExpired(st, e, now)

\* the switch on event.type in stripeWebhook
StripeDispatch(st, e, now) ==
    CASE e.type = "checkout.session.completed" -> handleCheckoutComplete(st, e, now)
      [] e.type = "checkout.session.expired" -> handleCheckoutExpired(st, e, now)
      [] e.type = "payment_intent.payment_failed" -> handlePaymentFailed(st, e, now)
      [] e.type = "charge.refunded" -> handleChargeRefunded(st, e, now)
      [] OTHER -> st

\* stripe.webhooks.constructEvent(rawBody, sig, endpointSecret): it returns the
\* event only when the signature is the one the shared secret gives the body
constructEventOk(e) == e.authentic

\* stripeWebhook dispatching the body before it checks the signature
stripeWebhook_DispatchFirst(st, e, now) ==
    LET r == StripeDispatch(st, e, now)
    IN [orders |-> r.orders, history |-> r.history,
        resp |-> IF constructEventOk(e) THEN Resp("stripeWebhook", 200, "passed")
                 ELSE Resp("stripeWebhook", 400, "failed")]

\* stripeWebhook: [orders, history, resp]
stripeWebhook(st, e, now) ==
    IF constructEventOk(e)
    THEN LET r == StripeDispatch(st, e, now)
         IN [orders |-> r.orders, history |-> r.history,
             resp |-> Resp("stripeWebhook", 200, "passed")]
    ELSE [orders |-> st.orders, history |-> st.history,
          resp |-> Resp("stripeWebhook", 400, "failed")]

\* ------------------------------------------------- PayPal webhook handlers
\* A PayPal event as the handlers read it: capture is resource.id, customId is
\* resource.custom_id, amount is parseFloat(resource.amount.value) in dollars.
PayPalTypes == {"PAYMENT.CAPTURE.COMPLETED", "PAYMENT.CAPTURE.DENIED",
                "PAYMENT.CAPTURE.REFUNDED", "CHECKOUT.ORDER.APPROVED", "other"}

\* handleCaptureCompleted(resource)
handleCaptureCompleted(st, e, now) ==
    IF e.customId # Null /\ e.customId \in DOMAIN st.orders
    THEN [orders |-> [st.orders EXCEPT ![e.customId] =
                         Update(@, [status |-> "paid",
                                    paypalCaptureId |-> e.capture,
                                    amountTotal |-> e.amount,
                                    paidAt |-> now,
                                    updatedAt |-> now])],
          history |-> st.history]
    ELSE st

\* handleCaptureDenied(resource)
handleCaptureDenied(st, e, now) ==
    IF e.customId # Null /\ e.customId \in DOMAIN st.orders
    THEN [orders |-> [st.orders EXCEPT ![e.customId] =
                         Update(@, [status |-> "payment_failed", updatedAt |-> now])],
          history |-> st.history]
    ELSE st

\* handleCaptureRefunded(resource)
handleCaptureRefunded(st, e, now) ==
    LET o == FindBy(st.orders, "paypalCaptureId", e.capture)
        originalAmount == st.orders[o].amountTotal
        isFullRefund == e.amount = originalAmount
    IN IF o = Null
       THEN st
       ELSE [orders |-> [st.orders EXCEPT ![o] =
                            Update(@, [status |-> IF isFullRefund THEN "refunded"
                                                  ELSE "partially_refunded",
                                       refundedAmount |-> e.amount,
                                       refundedAt |-> now,
                                       updatedAt |-> now])],
             history |-> st.history]

\* the switch on event_type in paypalWebhook
PayPalDispatch(st, e, now) ==
    CASE e.type = "PAYMENT.CAPTURE.COMPLETED" -> handleCaptureCompleted(st, e, now)
      [] e.type = "PAYMENT.CAPTURE.DENIED" -> handleCaptureDenied(st, e, now)
      [] e.type = "PAYMENT.CAPTURE.REFUNDED" -> handleCaptureRefunded(st, e, now)
      [] OTHER -> st

\* verifyWebhookSignature(headers, body): the outcomes it can have.  It returns
\* false ("failed") when the access token or the verification call fails, which
\* the network can always cause, and when PayPal does not answer SUCCESS; PayPal
\* answers SUCCESS exactly for an event it sent.  Without PAYPAL_WEBHOOK_ID it
\* returns true and nothing was verified ("skipped").
verifyWebhookSignature(e, idSet) ==
    {"failed"} \cup (IF ~idSet THEN {"skipped"}
                     ELSE IF e.authentic THEN {"passed"}
                     ELSE {})

\* the status paypalWebhook sends when verifyWebhookSignature returns false
PayPalInvalidSignatureStatus == 401

\* paypalWebhook acknowledging a request it rejected
paypalWebhook_AckRejected(st, e, verify, now) ==
    IF verify = "failed"
    THEN [orders |-> st.orders, history |-> st.history,
          resp |-> Resp("paypalWebhook", 200, verify)]
    ELSE LET r == PayPalDispatch(st, e, now)
         IN [orders |-> r.orders, history |-> r.history,
             resp |-> Resp("paypalWebhook", 200, verify)]

\* paypalWebhook, given the outcome of verifyWebhookSignature: [orders, history, resp]
paypalWebhook(st, e, verify, now) ==
    IF verify = "failed"
    THEN [orders |-> st.orders, history |-> st.history,
          resp |-> Resp("paypalWebhook", PayPalInvalidSignatureStatus, verify)]
    ELSE LET r == PayPalDispatch(st, e, now)
         IN [orders |-> r.orders, history |-> r.history,
             resp |-> Resp("paypalWebhook", 200, verify)]

\* ------------------------------------------------------ capture endpoint
\* a transaction that leaves an order alone that is paid already
captureWrite_SkipsPaid(st, o, orderData, c, now) ==
    IF st.orders[o].status = "paid"
    THEN st
    ELSE [orders |-> [st.orders EXCEPT ![o] =
                         Update(@, [status |-> "paid", amountTotal |-> c.amount,
                                    paypalCaptureId |-> c.captureId,
                                    paidAt |-> now, updatedAt |-> now])],
          history |-> IF orderData.userId # Null
                      THEN SetDoc(st.history, <<orderData.userId, o>>,
                                  HistoryRecord(o, orderData, c.amount, now))
                      ELSE st.history]

\* capturePayPalOrder's transaction, run on st: the update of order o and the
\* history copy, built from orderData, the document the lookup by
\* paypalOrderId read before
captureWrite(st, o, orderData, c, now) ==
    LET updates == [status |-> "paid",
                    amountTotal |-> c.amount,
                    paypalCaptureId |-> c.captureId,
                    paidAt |-> now,
                    updatedAt |-> now]
    IN [orders |-> [st.orders EXCEPT ![o] = Update(@, updates)],
        history |-> IF orderData.userId # Null
                    THEN SetDoc(st.history, <<orderData.userId, o>>,
                                HistoryRecord(o, orderData, updates.amountTotal,
                                              updates.paidAt))
                    ELSE st.history]

\* the lookup by paypalOrderId and the transaction with no write in between
captureTransaction(st, o, c, now) == captureWrite(st, o, st.orders[o], c, now)

\* error.statusCode of a failed PayPal call: absent (timeout, network) or the
\* HTTP status PayPal answered
ProcessorErrorStatuses == {Null, 422}

\* error.statusCode || 500, error.status || 500
ErrorStatus(status) == IF status # Null THEN status ELSE 500

\* the statuses of a capture result
CaptureStatuses == {"COMPLETED", "DECLINED", "PENDING"}

\* a response of capturePayPalOrder: HTTP status, and status, captureId and
\* orderId of the body (Undefined or Null where the body has no such field)
CaptureResp(code, status, captureId, orderId) ==
    [ep |-> "capturePayPalOrder", code |-> code, verify |-> "na",
     status |-> status, captureId |-> captureId, orderId |-> orderId]

\* a capture endpoint that marks the order paid whatever the capture result
captureNotCompleted_MarksPaid(st, captureStatus) ==
    [orders |-> [o \in DOMAIN st.orders |-> Update(st.orders[o], [status |-> "paid"])],
     history |-> st.history,
     resp |-> CaptureResp(400, captureStatus, Null, Null)]

\* capturePayPalOrder when captureStatus !== 'COMPLETED'
captureNotCompleted(st, captureStatus) ==
    [orders |-> st.orders, history |-> st.history,
     resp |-> CaptureResp(400, captureStatus, Null, Null)]

\* capturePayPalOrder's catch: error.statusCode || 500, and the error's message
captureFailed(st, errorStatus) ==
    [orders |-> st.orders, history |-> st.history,
     resp |-> CaptureResp(ErrorStatus(errorStatus), Undefined, Null, Null)]

\* ---------------------------------------------------------------- pricing
\* A cart item of the request body is a record of the fields the client sent:
\* id, name (the sequence of its words), quantity and price (the client's own
\* unit price); a field the client left out is not in the record.
\* item.id
ItemId(item) == IF "id" \in DOMAIN item THEN item.id ELSE Undefined

Tier1Threshold == 10
Tier2Threshold == 25

\* item.name.includes(word)
Includes(name, word) == \E i \in DOMAIN name : name[i] = word

\* TypeError: item.name.includes is read of a missing name, unless
\* item.id === 'nadplus' decided the first condition before it
NameThrows(item) == ItemId(item) # "nadplus" /\ "name" \notin DOMAIN item

\* a tier chain that charges the highest price from Tier2Threshold on
TierPrice_Surcharge(quantity, tiers) ==
    IF quantity >= Tier2Threshold THEN tiers[1]
    ELSE IF quantity >= Tier1Threshold THEN tiers[2]
    ELSE tiers[3]

\* the chain  if (quantity >= 25) .. else if (quantity >= 10) .. else ..
\* over tiers = <<base, middle, lowest>>
TierPrice(quantity, tiers) ==
    IF quantity >= Tier2Threshold THEN tiers[3]
    ELSE IF quantity >= Tier1Threshold THEN tiers[2]
    ELSE tiers[1]

\* the product branch validateAndBuildLineItems takes, in cents
StripeTiers(item) ==
    IF ItemId(item) = "nadplus" \/ Includes(item.name, "NAD+") THEN <<5500, 4400, 3500>>
    ELSE IF ItemId(item) = "reta" \/ Includes(item.name, "RETA") THEN <<7000, 5600, 4500>>
    ELSE IF ItemId(item) = "mots-c" THEN <<4500, 3600, 3000>>
    ELSE IF ItemId(item) = "pt-141" \/ ItemId(item) = "ipamorelin" THEN <<3800, 3000, 2500>>
    ELSE IF ItemId(item) = "bpc-157" THEN <<4200, 3400, 2800>>
    ELSE IF ItemId(item) = "ghk-cu" THEN <<4400, 3500, 2900>>
    ELSE IF ItemId(item) = "tesamorelin" THEN <<5800, 4600, 3800>>
    ELSE <<5500, 4400, 3500>>

\* a unit amount taken from the client's price field
unitAmount_ClientPrice(item) == item.price * CentsPerDollar

\* unitAmount of one item in validateAndBuildLineItems
unitAmount(item) == TierPrice(item.quantity, StripeTiers(item))

\* validateAndBuildLineItems(items): the line items, or the TypeError it throws
validateAndBuildLineItems(items) ==
    IF \E i \in DOMAIN items : NameThrows(items[i])
    THEN [threw |-> TRUE, lineItems |-> << >>]
    ELSE [threw |-> FALSE,
          lineItems |-> [i \in DOMAIN items |->
                            [unit_amount |-> unitAmount(items[i]),
                             quantity |-> items[i].quantity,
                             productId |-> ItemId(items[i])]]]

\* a total that stops after the first line
totalAmount_FirstLine(lineItems) ==
    IF Len(lineItems) = 0 THEN 0
    ELSE lineItems[1].unit_amount * lineItems[1].quantity

\* lineItems.reduce((sum, item) => sum + unit_amount * quantity, 0)
RECURSIVE totalAmount(_)
totalAmount(lineItems) ==
    IF Len(lineItems) = 0 THEN 0
    ELSE lineItems[1].unit_amount * lineItems[1].quantity + totalAmount(Tail(lineItems))

\* a getTieredPrice whose RETA branch gives a lower price from Tier2Threshold on
PayPalTiers_RetaLower(item) ==
    IF ItemId(item) = "nadplus" \/ Includes(item.name, "NAD+") THEN <<55, 44, 35>>
    ELSE IF ItemId(item) = "reta" \/ Includes(item.name, "RETA") THEN <<70, 56, 44>>
    ELSE <<55, 44, 35>>

\* the product branch getTieredPrice takes, in dollars
PayPalTiers(item) ==
    IF ItemId(item) = "nadplus" \/ Includes(item.name, "NAD+") THEN <<55, 44, 35>>
    ELSE IF ItemId(item) = "reta" \/ Includes(item.name, "RETA") THEN <<70, 56, 45>>
    ELSE IF ItemId(item) = "mots-c" THEN <<45, 36, 30>>
    ELSE IF ItemId(item) = "pt-141" \/ ItemId(item) = "ipamorelin" THEN <<38, 30, 25>>
    ELSE IF ItemId(item) = "bpc-157" THEN <<42, 34, 28>>
    ELSE IF ItemId(item) = "ghk-cu" THEN <<44, 35, 29>>
    ELSE IF ItemId(item) = "tesamorelin" THEN <<58, 46, 38>>
    ELSE <<55, 44, 35>>

\* getTieredPrice(item), in dollars
getTieredPrice(item) == TierPrice(item.quantity, PayPalTiers(item))

\* x.toFixed(2) of a whole number of dollars, as the number of cents it writes
ToFixed2(dollars) == dollars * CentsPerDollar

\* totalAmount of buildPurchaseUnit, in dollars
RECURSIVE purchaseTotal(_)
purchaseTotal(items) ==
    IF Len(items) = 0 THEN 0
    ELSE getTieredPrice(items[1]) * items[1].quantity + purchaseTotal(Tail(items))

\* buildPurchaseUnit(items, orderId): the purchase unit, or the TypeError
buildPurchaseUnit(items, orderId) ==
    IF \E i \in DOMAIN items : NameThrows(items[i])
    THEN [threw |-> TRUE, reference_id |-> orderId, items |-> << >>, amount |-> 0]
    ELSE [threw |-> FALSE,
          reference_id |-> orderId,
          items |-> [i \in DOMAIN items |->
                        [unit_amount |-> ToFixed2(getTieredPrice(items[i])),
                         quantity |-> items[i].quantity,
                         sku |-> ItemId(items[i])]],
          amount |-> ToFixed2(purchaseTotal(items))]

\* ------------------------------------------------------------ the events
Store == [orders |-> orders, history |-> history]

StripeEvent(type, obj, session, meta, dollars, refunded, authentic) ==
    [type |-> type, obj |-> obj, session |-> session, metaOrderId |-> meta,
     amountCents |-> dollars * CentsPerDollar,
     refundedCents |-> IF type = "charge.refunded" THEN refunded * CentsPerDollar ELSE Null,
     authentic |-> authentic]

\* A processor object k is a Stripe checkout session, a Stripe payment link or a
\* PayPal order.  phase[j] is what became of its j-th checkout session (of its
\* one session or capture, for a checkout session or a PayPal order): "open",
\* "completed" or "expired".
ProcessorObject(proc, metaOrderId, amount) ==
    [proc |-> proc, metaOrderId |-> metaOrderId, amount |-> amount,
     phase |-> [j \in 1..(IF proc = "link" THEN MaxLinkSessions ELSE 1) |-> "open"]]

\* the id of the j-th checkout session of processor object k
StripeSessionId(k, j) ==
    IF sessions[k].proc = "link" THEN LinkSessionId(k, j) ELSE k

\* the event types Stripe sends about a session in a phase: completion and
\* refund only for a completed session, expiry only for an expired one; a
\* payment attempt can fail in any session
StripeTypesIn(phase) ==
    {"payment_intent.payment_failed", "other"}
    \cup (IF phase = "completed" THEN {"checkout.session.completed", "charge.refunded"}
          ELSE IF phase = "expired" THEN {"checkout.session.expired"}
          ELSE {})

\* the events Stripe signs and sends about processor object k, carrying the
\* metadata and the amount it was created with
StripeEventsOf(k) ==
    IF sessions[k].proc = "paypal" THEN {}
    ELSE UNION {{StripeEvent(t, k, StripeSessionId(k, j), sessions[k].metaOrderId,
                             sessions[k].amount, r, TRUE) :
                    t \in StripeTypesIn(sessions[k].phase[j]), r \in 1..sessions[k].amount} :
                j \in DOMAIN sessions[k].phase}

AuthenticStripeEvents == UNION {StripeEventsOf(k) : k \in 1..Len(sessions)}

\* requests anyone can post: no valid signature, any content
ForgedTypes == {"checkout.session.completed", "charge.refunded"}

ForgedStripeEvents ==
    {StripeEvent(t, Null, 1, Null, MaxAmount, MaxAmount, FALSE) : t \in ForgedTypes}
    \cup {StripeEvent(t, Null, IF orders[o].stripeSessionId # Null
                               THEN orders[o].stripeSessionId ELSE 1,
                       o, MaxAmount, MaxAmount, FALSE) :
             t \in ForgedTypes, o \in DOMAIN orders}

PayPalEvent(type, capture, customId, dollars, authentic) ==
    [type |-> type, capture |-> capture, customId |-> customId, amount |-> dollars,
     authentic |-> authentic]

\* the events PayPal sends about processor object k: about a PayPal order it
\* holds; completion and refund only once the order was captured; a capture
\* attempt can be denied at any time.  custom_id is
\* absent, as in the purchase unit createPayPalOrder builds, or the order id the
\* purchase unit referred to.
PayPalEventsOf(k) ==
    IF sessions[k].proc # "paypal" THEN {}
    ELSE {e \in {PayPalEvent(t, k, c, a, TRUE) :
                    t \in PayPalTypes,
                    c \in {Null, sessions[k].metaOrderId} \cap ({Null} \cup DOMAIN orders),
                    a \in 1..sessions[k].amount} :
             /\ e.type # "PAYMENT.CAPTURE.REFUNDED" => e.amount = sessions[k].amount
             /\ e.type \in {"PAYMENT.CAPTURE.COMPLETED", "PAYMENT.CAPTURE.REFUNDED"}
                   => sessions[k].phase[1] = "completed"}

AuthenticPayPalEvents == UNION {PayPalEventsOf(k) : k \in 1..Len(sessions)}

\* requests anyone can post, naming a PayPal order of the store and an amount
ForgedPayPalEvents ==
    {PayPalEvent(t, 1, c, a, FALSE) :
        t \in {"PAYMENT.CAPTURE.COMPLETED", "PAYMENT.CAPTURE.REFUNDED"},
        c \in {Null} \cup {o \in DOMAIN orders : orders[o].paypalOrderId # Null},
        a \in {1}}

\* ------------------------------------------------------ request bodies
Item(id, name, quantity, price) ==
    [id |-> id, name |-> name, quantity |-> quantity, price |-> price]

\* req.body.items: missing, something that is not an array, or an array
Body(kind, items) == [kind |-> kind, items |-> items]

Skus == {"nadplus", "reta", "mots-c", "pt-141", "ipamorelin", "bpc-157",
         "ghk-cu", "tesamorelin", "aod-9604", "unknown-sku"}

PlainName == <<"Peptide", "5mg">>
Names == {PlainName, <<"NAD+", "500mg">>, <<"RETA", "10mg">>}

\* an item without field f
Without(item, f) == [g \in DOMAIN item \ {f} |-> item[g]]

FullItems ==
    {Item(id, name, q, p) : id \in Skus, name \in Names,
                            q \in 0..MaxQuantity, p \in 1..MaxClientPrice}

\* the items that are sent with a field left out
SparseItems == {i \in FullItems : i.quantity = 1 /\ i.price = 1}

Items ==
    FullItems \cup {Without(i, "id") : i \in SparseItems}
              \cup {Without(i, "name") : i \in SparseItems}

\* the items of the carts that hold more than one
PairItems ==
    {Item(id, PlainName, q, p) : id \in {"bpc-157", "reta"},
                                 q \in {1, Tier2Threshold}, p \in 1..MaxClientPrice}

Carts ==
    {<< >>} \cup {<<i>> : i \in Items}
    \cup UNION {[1..n -> PairItems] : n \in 2..MaxItems}

Bodies ==
    {Body("missing", << >>), Body("notArray", << >>)}
    \cup {Body("array", c) : c \in Carts}

\* the cart of the runs that are about reconciliation
DefaultBody == Body("array", <<Item("bpc-157", PlainName, 1, 1)>>)

\* if (!items || !Array.isArray(items) || items.length === 0)
itemsRejected(body) == body.kind # "array" \/ Len(body.items) = 0

\* ================================================================ the cart
\* The browser side: class Cart of js/cart.js and window.CartManager of
\* assets/js/cart-manager.js, both over localStorage['apex_labs_cart'].
\*
\* A JavaScript value is held as a record: a number x as the integer 2x (so
\* that 1.5 is 3), a string as the sequence of its pieces (of its characters,
\* in a name, a category and an image), an object as the record of the fields
\* it has.
JNum(twice) == [t |-> "number", n |-> twice, s |-> << >>]
JStr(s) == [t |-> "string", n |-> 0, s |-> s]
JNull == [t |-> "null", n |-> 0, s |-> << >>]
JUndefined == [t |-> "undefined", n |-> 0, s |-> << >>]

\* the number x of a whole number x
Whole(x) == JNum(2 * x)

\* item && typeof item === 'object'
IsObject(v) == "t" \notin DOMAIN v

\* obj.f
Field(obj, f) == IF f \in DOMAIN obj THEN obj[f] ELSE JUndefined

\* { ...obj, f: v }
With(obj, f, v) == [g \in DOMAIN obj \cup {f} |-> IF g = f THEN v ELSE obj[g]]

\* whether a || b takes a
Truthy(v) ==
    CASE v.t = "number" -> v.n # 0
      [] v.t = "string" -> Len(v.s) > 0
      [] OTHER -> FALSE

\* the pieces of strings that hold only characters of [a-zA-Z0-9\-_:]
SafePieces == {"bpc-157", "reta", "-wholesale", "price_bpc", "price_reta"}

\* /^[a-zA-Z0-9\-_:]+$/.test(s)
MatchesIdPattern(s) == Len(s) > 0 /\ \A i \in DOMAIN s : s[i] \in SafePieces

\* the limits of loadCart's filter
MaxLoadQuantity == 1000
MaxLoadPrice == 100000
MaxNameLength == 200
MaxCategoryLength == 100
MaxImageLength == 500

\* a string field that, if present, must be a string of at most limit characters
StringFieldOk(item, f, limit) ==
    f \in DOMAIN item => (item[f].t = "string" /\ ~(Len(item[f].s) > limit))

\* structural validity of a cart entry: an id of the restricted character set,
\* a whole quantity in 1..MaxLoadQuantity, a price, if any, in
\* 0..MaxLoadPrice, strings within their lengths
StructurallyValid(item) ==
    /\ IsObject(item)
    /\ Field(item, "id").t = "string" /\ MatchesIdPattern(Field(item, "id").s)
    /\ Field(item, "quantity").t = "number"
    /\ Field(item, "quantity").n % 2 = 0
    /\ ~(Field(item, "quantity").n < 2 * 1)
    /\ ~(Field(item, "quantity").n > 2 * MaxLoadQuantity)
    /\ "price" \in DOMAIN item =>
           /\ item.price.t = "number"
           /\ ~(item.price.n < 0)
           /\ ~(item.price.n > 2 * MaxLoadPrice)
    /\ StringFieldOk(item, "name", MaxNameLength)
    /\ StringFieldOk(item, "category", MaxCategoryLength)
    /\ StringFieldOk(item, "image", MaxImageLength)

\* the predicate of parsed.filter in Cart.loadCart
ValidEntry(item) ==
    /\ IsObject(item)
    /\ LET id == IF Truthy(Field(item, "id")) THEN Field(item, "id")
                 ELSE Field(item, "priceId")
       IN id.t = "string" /\ MatchesIdPattern(id.s)
    /\ Field(item, "quantity").t = "number"
    /\ ~(Field(item, "quantity").n < 2 * 1)
    /\ ~(Field(item, "quantity").n > 2 * MaxLoadQuantity)
    /\ "price" \in DOMAIN item =>
           /\ item.price.t = "number"
           /\ ~(item.price.n < 0)
           /\ ~(item.price.n > 2 * MaxLoadPrice)
    /\ StringFieldOk(item, "name", MaxNameLength)
    /\ StringFieldOk(item, "category", MaxCategoryLength)
    /\ StringFieldOk(item, "image", MaxImageLength)

\* What localStorage holds under the key: nothing, a text JSON.parse rejects,
\* the JSON of a value that is no array, or the JSON of an array.
Absent == [kind |-> "absent", items |-> << >>]
Garbage == [kind |-> "garbage", items |-> << >>]
NotAList == [kind |-> "other", items |-> << >>]
ListOf(items) == [kind |-> "array", items |-> items]

\* JSON.stringify(this.cart) of a cart of objects with number and string fields
Stringify(c) == ListOf(c)

\* Cart.loadCart() of js/cart.js
loadCart(stored) ==
    IF stored.kind = "array" THEN SelectSeq(stored.items, ValidEntry) ELSE << >>

\* CartManager.loadCart() of assets/js/cart-manager.js: the new CartManager.cart
managerLoadCart(current, stored) ==
    CASE stored.kind = "absent" -> current
      [] stored.kind = "garbage" -> ListOf(<< >>)
      [] OTHER -> stored

\* s.replace(piece, ''): the first occurrence goes
ReplaceFirst(s, piece) ==
    LET at == {i \in DOMAIN s : s[i] = piece}
    IN IF at = {} THEN s
       ELSE SubSeq(s, 1, Min(at) - 1) \o SubSeq(s, Min(at) + 1, Len(s))

\* data/products.json as fetched: base id -> the catalog's priceId and price
Catalog ==
    [id \in {<<"bpc-157">>} |-> [priceId |-> JStr(<<"price_bpc">>), price |-> Whole(42)]]

\* this.cart.find(test): the index of the first of the lines at that pass
\* the test, or 0
FirstLine(at) == IF at = {} THEN 0 ELSE Min(at)

\* item.quantity += delta
AddQuantity(item, delta) ==
    [item EXCEPT !.quantity = JNum(item.quantity.n + 2 * delta)]

\* Cart.addItem(product, quantity) up to saveCart: the new cart
addItem(c, product, quantity, data) ==
    LET baseId == ReplaceFirst(product.id.s, "-wholesale")
        known == data # "none" /\ baseId \in DOMAIN Catalog
        Refresh(item) == IF known
                         THEN With(With(item, "priceId", Catalog[baseId].priceId),
                                   "price", Catalog[baseId].price)
                         ELSE item
        IsBase(item) == Field(item, "id") = JStr(baseId)
        existing == FirstLine({i \in DOMAIN c : IsBase(c[i])})
    IN IF existing # 0
       THEN [c EXCEPT ![existing] = Refresh(AddQuantity(@, quantity))]
       ELSE Append(c, Refresh(With(With(product, "id", JStr(baseId)),
                                   "quantity", Whole(quantity))))

\* Cart.removeItem(id) up to saveCart: the new cart
removeItem(c, id) ==
    LET Keep(item) == Field(item, "id") # JStr(id) /\ Field(item, "priceId") # JStr(id)
    IN SelectSeq(c, Keep)

\* Cart.updateQuantity(id, delta) up to saveCart: whether a line was found,
\* and the new cart
updateQuantity(c, id, delta) ==
    LET Named(item) == Field(item, "id") = JStr(id) \/ Field(item, "priceId") = JStr(id)
        at == FirstLine({i \in DOMAIN c : Named(c[i])})
        changed == [c EXCEPT ![at] = AddQuantity(@, delta)]
    IN IF at = 0 THEN [found |-> FALSE, cart |-> c]
       ELSE [found |-> TRUE,
             cart |-> IF changed[at].quantity.n <= 0 THEN removeItem(changed, id)
                      ELSE changed]

\* Cart.getItemCount(), as twice the count
RECURSIVE getItemCount(_)
getItemCount(c) ==
    IF Len(c) = 0 THEN 0 ELSE c[1].quantity.n + getItemCount(Tail(c))

\* What a call does that the page can see: localStorage.setItem, one callback
\* of this.listeners, the cartUpdated event; with the cart each was handed.
Effect(kind, i, c) == [kind |-> kind, i |-> i, cart |-> c]

\* a notifyListeners that a throwing callback ends
notifyListeners_StopsAtThrow(ls, c) ==
    LET at == {i \in DOMAIN ls : ls[i] = "throws"}
        last == IF at = {} THEN Len(ls) ELSE Min(at)
    IN [i \in 1..last |-> Effect("callback", i, c)]

\* Cart.notifyListeners(): every callback in turn, a throw caught, then the event
notifyListeners(ls, c) ==
    [i \in 1..Len(ls) |-> Effect("callback", i, c)] \o <<Effect("cartUpdated", 0, c)>>

\* Cart.saveCart(): setItem, then notifyListeners
saveCart(ls, c) == <<Effect("setItem", 0, c)>> \o notifyListeners(ls, c)

\* ------------------------------------------------------ the cart's inputs
\* a stored line of a product, with a whole quantity
Line(id, quantity) == [id |-> JStr(id), quantity |-> Whole(quantity)]

\* a string of n characters
Chars(n) == [i \in 1..n |-> "x"]

\* The entries a stored array is made of: well-formed lines, and one entry
\* for each way an entry can be off.
StoredEntries ==
    {Line(<<"bpc-157">>, 1),
     Line(<<"reta">>, MaxLoadQuantity),
     With(Line(<<"reta">>, 2), "priceId", JStr(<<"price_reta">>)),
     [id |-> JStr(<<"bpc-157">>), quantity |-> JNum(3)],
     Line(<<"bpc-157">>, 0),
     Line(<<"bpc-157">>, MaxLoadQuantity + 1),
     [id |-> JStr(<<"bpc-157">>), quantity |-> JStr(<<"1">>)],
     Line(<<"<script>">>, 1),
     [priceId |-> JStr(<<"price_bpc">>), quantity |-> Whole(1)],
     With(Line(<<"bpc-157">>, 1), "price", JNum(0 - 1)),
     With(Line(<<"bpc-157">>, 1), "price", Whole(MaxLoadPrice + 1)),
     With(Line(<<"bpc-157">>, 1), "name", JStr(Chars(MaxNameLength + 1))),
     JNull}

\* the entries the longer stored arrays are made of
PairEntries ==
    {Line(<<"bpc-157">>, 1),
     With(Line(<<"reta">>, 2), "priceId", JStr(<<"price_reta">>)),
     [id |-> JStr(<<"bpc-157">>), quantity |-> JNum(3)],
     Line(<<"bpc-157">>, 0)}

\* the arrays of at most MaxStored entries
StoredLists ==
    {<< >>} \cup {<<e>> : e \in StoredEntries}
    \cup UNION {[1..n -> PairEntries] : n \in 2..MaxStored}

\* every value the key can hold
StoredValues == {Absent, Garbage, NotAList} \cup {ListOf(l) : l \in StoredLists}

\* what another tab writes: its own cart, or anything else
TabWrites ==
    {NotAList, ListOf(<< >>), ListOf(<<Line(<<"reta">>, 1)>>),
     ListOf(<<Line(<<"bpc-157">>, 0)>>)}

\* the products the pages hand to addItem, and the quantities
Products ==
    {[id |-> JStr(<<"bpc-157">>), name |-> JStr(<<"B", "P", "C">>), price |-> Whole(42)],
     [id |-> JStr(<<"bpc-157", "-wholesale">>), price |-> Whole(34)],
     [id |-> JStr(<<"reta">>), priceId |-> JStr(<<"price_reta">>), price |-> Whole(70)]}

AddQuantities == {1}

\* the ids the pages hand to removeItem and updateQuantity: item.id || item.priceId
CallIds == {<<"bpc-157">>, <<"reta">>, <<"price_reta">>}

\* what the listeners of a page do when called
ListenerKinds == {"ok", "throws"}

\* A page has loaded over a stored value: new Cart() has run loadCart, and
\* CartManager.init() has run its own.
PageLoaded(stored) ==
    /\ storage = stored
    /\ cart = loadCart(stored)
    /\ listeners = << >>
    /\ productData = "none"
    /\ effects = << >>
    /\ ended = "returned"
    /\ managerCart = managerLoadCart(ListOf(<< >>), stored)
    /\ storageEvent = FALSE
    /\ calls = 0

\* ------------------------------------------------------------ the actions
\* what resp holds after a step: the response, when the run records responses
Seen(rec, r) == IF rec THEN r ELSE NoResp

Init ==
    /\ orders = << >>
    /\ history = << >>
    /\ clock = 1
    /\ nextOrderId = 0
    /\ sessions = << >>
    /\ init = Idle
    /\ cap = Idle
    /\ webhookIdSet \in BOOLEAN
    /\ acked = {}
    /\ resp = NoResp
    /\ PageLoaded(Absent)

\* Firestore's clock advances
Tick ==
    /\ clock < MaxClock
    /\ clock' = clock + 1
    /\ resp' = NoResp
    /\ UNCHANGED <<orders, history, nextOrderId, sessions, init, cap,
                   webhookIdSet, acked, cartVars>>

\* createCheckoutSession, default path, up to the answer of
\* stripe.checkout.sessions.create.  A Stripe error carries no status field.
CheckoutSessionCreate(limit, rec, reqs, emails) ==
    \E uid \in Users \cup {Null}, email \in emails, a \in {MaxAmount}, ok \in BOOLEAN,
       body \in reqs :
        LET built == validateAndBuildLineItems(body.items)
        IN /\ init = Idle
           /\ nextOrderId < limit
           /\ Len(sessions) < limit
           /\ IF itemsRejected(body)
              THEN /\ UNCHANGED <<sessions, init>>
                   /\ resp' = Seen(rec, Resp("createCheckoutSession", 400, "na"))
              ELSE IF built.threw \/ ~ok
              THEN /\ UNCHANGED <<sessions, init>>
                   /\ resp' = Seen(rec, Resp("createCheckoutSession",
                                             ErrorStatus(Null), "na"))
              ELSE /\ sessions' = Append(sessions, ProcessorObject("stripe", Null, a))
                   /\ init' = [path |-> "checkout", orderId |-> Null,
                               session |-> Len(sessions) + 1, userId |-> uid,
                               customerEmail |-> email,
                               items |-> body.items, params |-> built.lineItems]
                   /\ resp' = NoResp
           /\ UNCHANGED <<orders, history, clock, nextOrderId, cap, webhookIdSet, acked, cartVars>>

\* createCheckoutSession, default path, from createPendingOrder to the response
CheckoutSessionStore(rec) ==
    /\ init # Idle
    /\ init.path = "checkout"
    /\ orders' = SetDoc(orders, NewOrderId,
                        PendingOrder(init.session, Null, init.userId, clock))
    /\ nextOrderId' = nextOrderId + 1
    /\ init' = Idle
    /\ resp' = Seen(rec, Resp("createCheckoutSession", 200, "na"))
    /\ UNCHANGED <<history, clock, sessions, cap, webhookIdSet, acked, cartVars>>

\* createCheckoutSession, usePaymentLink path, up to the answer of
\* stripe.paymentLinks.create.  stripe.prices.create, called for the total
\* before the order id is taken, can fail too.
PaymentLinkCreate(limit, rec, reqs, emails) ==
    \E uid \in Users \cup {Null}, email \in emails, a \in {MaxAmount},
       fail \in {"none", "prices", "paymentLinks"}, body \in reqs :
        LET built == validateAndBuildLineItems(body.items)
            early == itemsRejected(body) \/ built.threw \/ fail = "prices"
        IN /\ init = Idle
           /\ nextOrderId < limit
           /\ Len(sessions) < limit
           /\ nextOrderId' = IF early THEN nextOrderId ELSE nextOrderId + 1
           /\ IF itemsRejected(body)
              THEN /\ UNCHANGED <<sessions, init>>
                   /\ resp' = Seen(rec, Resp("createCheckoutSession", 400, "na"))
              ELSE IF built.threw \/ fail # "none"
              THEN /\ UNCHANGED <<sessions, init>>
                   /\ resp' = Seen(rec, Resp("createCheckoutSession",
                                             ErrorStatus(Null), "na"))
              ELSE /\ sessions' = Append(sessions, ProcessorObject("link", NewOrderId, a))
                   /\ init' = [path |-> "link", orderId |-> NewOrderId,
                               session |-> Len(sessions) + 1, userId |-> uid,
                               customerEmail |-> email,
                               items |-> body.items,
                               params |-> <<[unit_amount |-> totalAmount(built.lineItems),
                                             quantity |-> 1]>>]
                   /\ resp' = NoResp
           /\ UNCHANGED <<orders, history, clock, cap, webhookIdSet, acked, cartVars>>

\* createCheckoutSession, usePaymentLink path, from orderRef.set to the response
PaymentLinkStore(rec) ==
    /\ init # Idle
    /\ init.path = "link"
    /\ orders' = SetDoc(orders, init.orderId,
                        PendingOrder(PaymentLinkId(init.session), Null, init.userId, clock))
    /\ init' = Idle
    /\ resp' = Seen(rec, Resp("createCheckoutSession", 200, "na"))
    /\ UNCHANGED <<history, clock, nextOrderId, sessions, cap, webhookIdSet, acked, cartVars>>

\* createPayPalOrder up to the answer of client.execute(OrdersCreateRequest)
PayPalOrderCreate(limit, rec, reqs, emails) ==
    \E uid \in Users \cup {Null}, email \in emails, a \in {MaxAmount}, ok \in BOOLEAN,
       err \in ProcessorErrorStatuses, body \in reqs :
        LET unit == buildPurchaseUnit(body.items, NewOrderId)
        IN /\ init = Idle
           /\ nextOrderId < limit
           /\ Len(sessions) < limit
           /\ nextOrderId' = IF itemsRejected(body) THEN nextOrderId ELSE nextOrderId + 1
           /\ IF itemsRejected(body)
              THEN /\ UNCHANGED <<sessions, init>>
                   /\ resp' = Seen(rec, Resp("createPayPalOrder", 400, "na"))
              ELSE IF unit.threw \/ ~ok
              THEN /\ UNCHANGED <<sessions, init>>
                   /\ resp' = Seen(rec, Resp("createPayPalOrder",
                                             ErrorStatus(IF unit.threw THEN Null ELSE err),
                                             "na"))
              ELSE /\ sessions' = Append(sessions, ProcessorObject("paypal", NewOrderId, a))
                   /\ init' = [path |-> "paypal", orderId |-> NewOrderId,
                               session |-> Len(sessions) + 1, userId |-> uid,
                               customerEmail |-> email,
                               items |-> body.items, params |-> unit]
                   /\ resp' = NoResp
           /\ UNCHANGED <<orders, history, clock, cap, webhookIdSet, acked, cartVars>>

\* createPayPalOrder from orderRef.set to the response
PayPalOrderStore(rec) ==
    /\ init # Idle
    /\ init.path = "paypal"
    /\ orders' = SetDoc(orders, init.orderId,
                        PendingOrder(Null, init.session, init.userId, clock))
    /\ init' = Idle
    /\ resp' = Seen(rec, Resp("createPayPalOrder", 200, "na"))
    /\ UNCHANGED <<history, clock, nextOrderId, sessions, cap, webhookIdSet, acked, cartVars>>

\* Stripe: the buyer pays the j-th checkout session of processor object k, or
\* the session expires unpaid.  A session can be paid as soon as Stripe holds it.
StripeSessionEnds(rec) ==
    \E k \in 1..Len(sessions), phase \in {"completed", "expired"} :
        \E j \in DOMAIN sessions[k].phase :
            /\ sessions[k].proc # "paypal"
            /\ sessions[k].phase[j] = "open"
            /\ sessions' = [sessions EXCEPT ![k].phase[j] = phase]
            /\ resp' = NoResp
            /\ UNCHANGED <<orders, history, clock, nextOrderId, init, cap,
                           webhookIdSet, acked, cartVars>>

\* the event types whose acknowledgement is recorded
AckedTypes == {"checkout.session.completed", "charge.refunded"}

\* one delivery to stripeWebhook
StripeWebhook(rec) ==
    \E e \in AuthenticStripeEvents \cup ForgedStripeEvents :
        LET r == stripeWebhook(Store, e, clock)
        IN /\ orders' = r.orders
           /\ history' = r.history
           /\ resp' = Seen(rec, r.resp)
           /\ acked' = IF rec /\ r.resp.code = 200 /\ e.obj # Null /\ e.type \in AckedTypes
                       THEN acked \cup {<<e.obj, e.type>>} ELSE acked
           /\ UNCHANGED <<clock, nextOrderId, sessions, init, cap, webhookIdSet, cartVars>>

\* one delivery to paypalWebhook
PayPalWebhook(rec) ==
    \E e \in AuthenticPayPalEvents \cup ForgedPayPalEvents :
        \E verify \in verifyWebhookSignature(e, webhookIdSet) :
            LET r == paypalWebhook(Store, e, verify, clock)
            IN /\ orders' = r.orders
               /\ history' = r.history
               /\ resp' = Seen(rec, r.resp)
               /\ UNCHANGED <<clock, nextOrderId, sessions, init, cap,
                              webhookIdSet, acked, cartVars>>

\* capturePayPalOrder up to the answer of client.execute(OrdersCaptureRequest).
\* PayPal refuses to capture an order twice: the call fails.
CaptureCall(rec) ==
    \E k \in 1..Len(sessions), outcome \in CaptureStatuses \cup {"error"},
       err \in ProcessorErrorStatuses :
        /\ cap = Idle
        /\ sessions[k].proc = "paypal"
        /\ sessions[k].phase[1] = "completed" => outcome = "error"
        /\ CASE outcome = "COMPLETED" ->
                  /\ sessions' = [sessions EXCEPT ![k].phase[1] = "completed"]
                  /\ cap' = [path |-> "capture", order |-> k, captureId |-> k,
                             amount |-> sessions[k].amount]
                  /\ resp' = NoResp
                  /\ UNCHANGED <<orders, history>>
             [] outcome = "error" ->
                  LET r == captureFailed(Store, err)
                  IN /\ orders' = r.orders
                     /\ history' = r.history
                     /\ resp' = Seen(rec, r.resp)
                     /\ UNCHANGED <<sessions, cap>>
             [] OTHER ->
                  LET r == captureNotCompleted(Store, outcome)
                  IN /\ orders' = r.orders
                     /\ history' = r.history
                     /\ resp' = Seen(rec, r.resp)
                     /\ UNCHANGED <<sessions, cap>>
        /\ UNCHANGED <<clock, nextOrderId, init, webhookIdSet, acked, cartVars>>

\* capturePayPalOrder from the lookup by paypalOrderId to the response
CaptureStore(rec) ==
    /\ cap # Idle
    /\ LET o == FindBy(orders, "paypalOrderId", cap.order)
           r == IF o = Null THEN Store ELSE captureTransaction(Store, o, cap, clock)
       IN /\ orders' = r.orders
          /\ history' = r.history
          /\ resp' = Seen(rec, CaptureResp(200, "COMPLETED", cap.captureId, o))
    /\ cap' = Idle
    /\ UNCHANGED <<clock, nextOrderId, sessions, init, webhookIdSet, acked, cartVars>>

Next(limit, rec, reqs, emails) ==
    \/ CheckoutSessionCreate(limit, rec, reqs, emails)
    \/ CheckoutSessionStore(rec)
    \/ PaymentLinkCreate(limit, rec, reqs, emails)
    \/ PaymentLinkStore(rec)
    \/ PayPalOrderCreate(limit, rec, reqs, emails)
    \/ PayPalOrderStore(rec)
    \/ StripeSessionEnds(rec)
    \/ StripeWebhook(rec)
    \/ PayPalWebhook(rec)
    \/ CaptureCall(rec)
    \/ CaptureStore(rec)

\* Spec: every request of the store, MaxOrders checkouts.  No handler reads a
\* timestamp, so every write falls in one instant of the server clock; the
\* responses are not recorded.
Spec == Init /\ [][Next(MaxOrders, FALSE, {DefaultBody}, WithEmail)]_vars

\* SpecHttp: the same handlers for MaxObserved checkouts, requested with and
\* without a customerEmail, with the response of every request and the
\* acknowledged completion events recorded.
NextHttp == Next(MaxObserved, TRUE, {DefaultBody}, Emails)

SpecHttp == Init /\ [][NextHttp]_vars

\* SpecStripe: the Stripe variant alone (checkout sessions, payment links and
\* stripeWebhook) for MaxObserved checkouts, with the responses recorded and the
\* server clock advancing between writes.
NextStripe ==
    \/ Tick
    \/ CheckoutSessionCreate(MaxObserved, TRUE, {DefaultBody}, WithEmail)
    \/ CheckoutSessionStore(TRUE)
    \/ PaymentLinkCreate(MaxObserved, TRUE, {DefaultBody}, WithEmail)
    \/ PaymentLinkStore(TRUE)
    \/ StripeSessionEnds(TRUE)
    \/ StripeWebhook(TRUE)

SpecStripe == Init /\ [][NextStripe]_vars

\* SpecPricing: the three checkout initiators alone, for MaxObserved checkouts
\* and every request body of Bodies, with the responses recorded.
NextPricing ==
    \/ CheckoutSessionCreate(MaxObserved, TRUE, Bodies, WithEmail)
    \/ CheckoutSessionStore(TRUE)
    \/ PaymentLinkCreate(MaxObserved, TRUE, Bodies, WithEmail)
    \/ PaymentLinkStore(TRUE)
    \/ PayPalOrderCreate(MaxObserved, TRUE, Bodies, WithEmail)
    \/ PayPalOrderStore(TRUE)

SpecPricing == Init /\ [][NextPricing]_vars

\* ------------------------------------------------------ the cart's actions
\* the parts of the state a call on the Cart leaves alone
CartFrame ==
    UNCHANGED <<orders, history, clock, nextOrderId, sessions, init, cap,
                webhookIdSet, acked, resp, listeners, productData, managerCart,
                storageEvent>>

\* a mutation's end: the cart c is in place and saveCart has run
Saved(c) ==
    /\ cart' = c
    /\ storage' = Stringify(c)
    /\ effects' = saveCart(listeners, c)
    /\ ended' = "returned"

\* Cart.addItem(product, quantity)
CartAddItem ==
    \E product \in Products, quantity \in AddQuantities :
        /\ calls < MaxCalls
        /\ calls' = calls + 1
        /\ Saved(addItem(cart, product, quantity, productData))
        /\ CartFrame

\* Cart.removeItem(id)
CartRemoveItem ==
    \E id \in CallIds :
        /\ calls < MaxCalls
        /\ calls' = calls + 1
        /\ Saved(removeItem(cart, id))
        /\ CartFrame

\* Cart.updateQuantity(id, delta): nothing is saved when no line has the id
CartUpdateQuantity ==
    \E id \in CallIds, delta \in {0 - 1, 1} :
        LET r == updateQuantity(cart, id, delta)
        IN /\ calls < MaxCalls
           /\ calls' = calls + 1
           /\ IF r.found
              THEN Saved(r.cart)
              ELSE /\ effects' = << >>
                   /\ ended' = "returned"
                   /\ UNCHANGED <<cart, storage>>
           /\ CartFrame

\* Cart.clearCart()
CartClear ==
    /\ calls < MaxCalls
    /\ calls' = calls + 1
    /\ Saved(<< >>)
    /\ CartFrame

\* Cart.subscribe(callback): the callback is kept, then called; its throw is
\* the call's throw
CartSubscribe ==
    \E kind \in ListenerKinds :
        /\ Len(listeners) < MaxListeners
        /\ listeners' = Append(listeners, kind)
        /\ effects' = <<Effect("callback", Len(listeners) + 1, cart)>>
        /\ ended' = IF kind = "throws" THEN "threw" ELSE "returned"
        /\ UNCHANGED <<orders, history, clock, nextOrderId, sessions, init, cap,
                       webhookIdSet, acked, resp, storage, cart, productData,
                       managerCart, storageEvent, calls>>

\* Cart.initProductData() once the catalog has arrived
ProductDataLoaded ==
    /\ productData = "none"
    /\ productData' = "loaded"
    /\ effects' = notifyListeners(listeners, cart)
    /\ ended' = "returned"
    /\ UNCHANGED <<orders, history, clock, nextOrderId, sessions, init, cap,
                   webhookIdSet, acked, resp, storage, cart, listeners,
                   managerCart, storageEvent, calls>>

\* The buyer goes to another page of the site: its scripts start over.  A
\* storage event still under way is delivered to the old page first; the new
\* page reads the same stored value either way.
PageNavigate ==
    /\ ~storageEvent
    /\ cart' = loadCart(storage)
    /\ listeners' = << >>
    /\ productData' = "none"
    /\ effects' = << >>
    /\ ended' = "returned"
    /\ managerCart' = managerLoadCart(ListOf(<< >>), storage)
    /\ storageEvent' = FALSE
    /\ UNCHANGED <<orders, history, clock, nextOrderId, sessions, init, cap,
                   webhookIdSet, acked, resp, storage, calls>>

\* another tab of the site writes the key
OtherTabWrites ==
    \E v \in TabWrites :
        /\ calls < MaxCalls
        /\ calls' = calls + 1
        /\ ~storageEvent
        /\ v # storage
        /\ storage' = v
        /\ storageEvent' = TRUE
        /\ UNCHANGED <<orders, history, clock, nextOrderId, sessions, init, cap,
                       webhookIdSet, acked, resp, cart, listeners, productData,
                       effects, ended, managerCart>>

\* The storage event of that write reaches this tab.  CartManager.init()
\* registered a handler: loadCart, then updateCartCounter, whose
\* this.cart.reduce throws when the parsed value is no array.  js/cart.js
\* registers none.
StorageEvent ==
    /\ storageEvent
    /\ storageEvent' = FALSE
    /\ managerCart' = managerLoadCart(managerCart, storage)
    /\ effects' = << >>
    /\ ended' = IF managerCart'.kind = "array" THEN "returned" ELSE "threw"
    /\ UNCHANGED <<orders, history, clock, nextOrderId, sessions, init, cap,
                   webhookIdSet, acked, resp, storage, cart, listeners,
                   productData, calls>>

NextCart ==
    \/ CartAddItem
    \/ CartRemoveItem
    \/ CartUpdateQuantity
    \/ CartClear
    \/ CartSubscribe
    \/ ProductDataLoaded
    \/ PageNavigate
    \/ OtherTabWrites
    \/ StorageEvent

\* SpecCart: one browser tab over every stored value of StoredValues, with
\* MaxCalls calls on its Cart or writes of another tab; no order is placed.
InitCart ==
    /\ orders = << >>
    /\ history = << >>
    /\ clock = 1
    /\ nextOrderId = 0
    /\ sessions = << >>
    /\ init = Idle
    /\ cap = Idle
    /\ webhookIdSet = TRUE
    /\ acked = {}
    /\ resp = NoResp
    /\ \E stored \in StoredValues : PageLoaded(stored)

SpecCart == InitCart /\ [][NextCart]_vars

\* ================================================================ claims
Webhooks == {"stripeWebhook", "paypalWebhook"}

\* the order the initiator wrote, or will write, for processor object k
OrdersOf(k) ==
    IF sessions[k].proc = "stripe"
    THEN {o \in DOMAIN orders : orders[o].stripeSessionId = k}
    ELSE {sessions[k].metaOrderId} \cap DOMAIN orders

\* C1: every status change of an existing order is one of pending->paid,
\* pending->expired, pending->payment_failed, paid->refunded,
\* paid->partially_refunded; any other event leaves the status as it was.
AllowedEdges ==
    {<<"pending", "paid">>, <<"pending", "expired">>, <<"pending", "payment_failed">>,
     <<"paid", "refunded">>, <<"paid", "partially_refunded">>}

C1_OnlyForwardEdges ==
    [][\A o \in DOMAIN orders :
          (resp'.verify # "skipped" /\ orders'[o].status # orders[o].status)
             => <<orders[o].status, orders'[o].status>> \in AllowedEdges]_vars

\* C2: an order document, once written, is never deleted, and 'pending' is
\* written only when the document is first created: no order that left pending
\* is pending again.
C2_NeverPendingAgain ==
    [][\A o \in DOMAIN orders :
          /\ o \in DOMAIN orders'
          /\ orders'[o].status = "pending" => orders[o].status = "pending"]_vars

\* C2's case: an order has left pending and a later checkout has written another
\* pending order.
C2_Witness ==
    \E o1, o2 \in DOMAIN orders :
        /\ o1 < o2
        /\ orders[o1].status \in {"paid", "refunded", "expired", "payment_failed"}
        /\ orders[o2].status = "pending"

\* C3: handling a verified event a second time, at any later moment, leaves the
\* orders and the owners' history as the first handling left them.
C3_DuplicateDeliveryIdempotent ==
    /\ \A e \in AuthenticStripeEvents : \A t \in clock..MaxClock :
          LET once == StripeDispatch(Store, e, clock)
          IN StripeDispatch(once, e, t) = once
    /\ \A e \in AuthenticPayPalEvents : \A t \in clock..MaxClock :
          LET once == PayPalDispatch(Store, e, clock)
          IN PayPalDispatch(once, e, t) = once

\* C4: a step of a webhook handler or of the capture endpoint, for a verified
\* event, that finds an order paid and leaves it paid leaves every field of the
\* order document unchanged.
C4_PaidOnPaidIsNoOp ==
    [][\A o \in DOMAIN orders :
          (/\ resp'.ep \in Webhooks \cup {"capturePayPalOrder"}
           /\ resp'.code = 200
           /\ resp'.verify \in {"passed", "na"}
           /\ orders[o].status = "paid"
           /\ orders'[o].status = "paid")
             => orders'[o] = orders[o]]_vars

\* C5: a webhook request whose authenticity check fails changes no order
\* document and no history document.
C5_RejectedChangesNothing ==
    [][resp'.verify = "failed" => (orders' = orders /\ history' = history)]_vars

\* C5's case: a request was rejected by stripeWebhook while an order was pending.
C5_Witness ==
    /\ resp.ep = "stripeWebhook"
    /\ resp.verify = "failed"
    /\ \E o \in DOMAIN orders : orders[o].status = "pending"

C7_WritesOnlyAfterVerification ==
    [][(resp'.ep \in Webhooks /\ (orders' # orders \/ history' # history))
          => resp'.verify = "passed"]_vars

\* C8: when the processor holds a session, payment link or PayPal order of a
\* checkout, that checkout's order id is in its metadata and the pending order
\* document is already written.
C8_OrderWrittenBeforeProcessorCall ==
    \A k \in 1..Len(sessions) :
        /\ sessions[k].metaOrderId # Null
        /\ sessions[k].metaOrderId \in DOMAIN orders

\* C9: once a verified completion event of a checkout was acknowledged and the
\* initiator has finished that checkout, its order is no longer pending.
C9_EarlyCompletionResolved ==
    \A k \in 1..Len(sessions) :
        (/\ <<k, "checkout.session.completed">> \in acked
         /\ (init = Idle \/ init.session # k))
           => \A o \in OrdersOf(k) : orders[o].status # "pending"

\* C10: once the completion event and a refund event of a checkout have both
\* been handled, in either order, its order has status refunded or
\* partially_refunded, with the paid fields and the refund fields set.
C10_PaidAndRefundBothApplied ==
    \A k \in 1..Len(sessions) :
        (/\ <<k, "checkout.session.completed">> \in acked
         /\ <<k, "charge.refunded">> \in acked)
           => \A o \in OrdersOf(k) :
                 /\ orders[o].status \in {"refunded", "partially_refunded"}
                 /\ orders[o].amountTotal # Null
                 /\ orders[o].paidAt # Null
                 /\ orders[o].refundedAmount # Null
                 /\ orders[o].refundedAt # Null

\* C11: an order that is pending has no amountTotal, and an order that is paid
\* has the amount the processor reports for the checkout it belongs to.
C11_AmountFromProcessor ==
    \A o \in DOMAIN orders :
        /\ orders[o].status = "pending" => orders[o].amountTotal = Null
        /\ orders[o].status = "paid" =>
              \E k \in 1..Len(sessions) :
                  /\ o \in OrdersOf(k)
                  /\ orders[o].amountTotal = sessions[k].amount

\* what the initiator of a path sends to the processor for the items of a cart
SentFor(path, items, orderId) ==
    CASE path = "checkout" -> validateAndBuildLineItems(items).lineItems
      [] path = "link" ->
            <<[unit_amount |-> totalAmount(validateAndBuildLineItems(items).lineItems),
               quantity |-> 1]>>
      [] OTHER -> buildPurchaseUnit(items, orderId)

\* the carts that differ from a cart in the price fields of their items only
Repricings(items) ==
    {[i \in DOMAIN items |-> [items[i] EXCEPT !.price = p[i]]] :
        p \in [DOMAIN items -> 1..MaxClientPrice]}

\* C12: whatever the request in flight has sent to the processor, the same
\* request with any other client prices in its items sends the same unit
\* amounts, quantities and totals.
C12_ClientPriceIgnored ==
    init # Idle =>
        \A c \in Repricings(init.items) :
            SentFor(init.path, c, init.orderId) = init.params

\* C12's case: a payment link was requested for two items with different
\* client prices.
C12_Witness ==
    /\ init # Idle
    /\ init.path = "link"
    /\ Len(init.items) = 2
    /\ init.items[1].price # init.items[2].price

\* the unit price the initiator of a path computes for an item, in cents
UnitPriceSent(path, item) ==
    IF path = "paypal" THEN ToFixed2(getTieredPrice(item)) ELSE unitAmount(item)

\* C13: every item with the id and the quantity of an item of the request in
\* flight gets the unit price that item got, whatever its name and its price.
C13_PriceBySkuAndQuantity ==
    init # Idle =>
        \A i \in DOMAIN init.items :
            \A other \in {x \in FullItems : /\ x.id = ItemId(init.items[i])
                                            /\ x.quantity = init.items[i].quantity} :
                UnitPriceSent(init.path, other) = UnitPriceSent(init.path, init.items[i])

\* C14: for every item of the request in flight, with a quantity of at least 1,
\* the same item in any larger quantity up to MaxQuantity gets a unit price that
\* is not higher.
C14_PriceNonIncreasing ==
    init # Idle =>
        \A i \in DOMAIN init.items : \A q \in 1..MaxQuantity :
            (init.items[i].quantity >= 1 /\ init.items[i].quantity < q)
               => UnitPriceSent(init.path, [init.items[i] EXCEPT !.quantity = q])
                     <= UnitPriceSent(init.path, init.items[i])

\* C14's case: a PayPal order was requested for an unlisted product in the
\* largest quantity of the base tier.
C14_Witness ==
    /\ init # Idle
    /\ init.path = "paypal"
    /\ ItemId(init.items[1]) = "unknown-sku"
    /\ init.items[1].quantity = Tier1Threshold - 1

\* the three prices of a product, in cents: the branch its id selects
SkuTiers(id) == StripeTiers(Item(id, PlainName, 1, 1))

\* the total the processor is told to charge
TotalSent(path, params) ==
    CASE path = "checkout" -> totalAmount(params)
      [] path = "link" -> params[1].unit_amount * params[1].quantity
      [] OTHER -> params.amount

\* quantity times the tier price of each item's product, summed
RECURSIVE SkuTotal(_)
SkuTotal(items) ==
    IF Len(items) = 0 THEN 0
    ELSE LET q == items[1].quantity
             t == SkuTiers(ItemId(items[1]))
         IN q * (IF q < Tier1Threshold THEN t[1]
                 ELSE IF q < Tier2Threshold THEN t[2]
                 ELSE t[3])
            + SkuTotal(Tail(items))

\* C15: the request in flight is charged, for each item, its quantity times the
\* base, middle or lowest price of the item's product, by the thresholds 10 and
\* 25; 9 of bpc-157 are charged 9 x 42.00 and 25 of bpc-157 25 x 28.00.
C15_TiersCharged ==
    (init # Idle /\ \A i \in DOMAIN init.items : init.items[i].quantity >= 1) =>
        /\ TotalSent(init.path, init.params) = SkuTotal(init.items)
        /\ \A q \in {9, 25} :
              (/\ Len(init.items) = 1
               /\ ItemId(init.items[1]) = "bpc-157"
               /\ init.items[1].quantity = q)
                 => TotalSent(init.path, init.params) = (IF q = 9 THEN 9 * 4200 ELSE 25 * 2800)

\* the products the price table names
RecognizedSkus == Skus \ {"unknown-sku"}

\* a cart entry with an id, a name, a quantity of at least 1 and a known product
WellFormedItem(item) ==
    /\ "id" \in DOMAIN item
    /\ "name" \in DOMAIN item
    /\ item.quantity >= 1
    /\ item.id \in RecognizedSkus

\* C16: a request for which the initiator has called the processor, or has
\* written an order, had a non-empty list of well-formed items of known products.
C16_MalformedCartRejected ==
    init # Idle => (Len(init.items) > 0 /\ \A i \in DOMAIN init.items :
                                             WellFormedItem(init.items[i]))

\* the endpoints of the Checkout Session Initiator
Initiators == {"createCheckoutSession", "createPayPalOrder"}

\* C17: when a checkout request with a valid cart is answered with a failure,
\* the processor's creation call having failed, the answer is a 5xx and a
\* pending order written for the request is in the store.
C17_FailureLeavesPendingOrphan ==
    (resp.ep \in Initiators /\ resp.code \notin {200, 400}) =>
        /\ resp.code \in 500..599
        /\ \E o \in DOMAIN orders : orders[o].status = "pending"

\* C18: a checkout request that is answered with success has added exactly
\* one document to orders, pending and under an id no order had, and has left
\* every other order as it was, whatever orders the same customer already has.
C18_OneNewPendingOrderPerCall ==
    [][(init # Idle /\ init' = Idle) =>
          \E o \in DOMAIN orders' \ DOMAIN orders :
              /\ DOMAIN orders' = DOMAIN orders \cup {o}
              /\ orders'[o].status = "pending"
              /\ \A x \in DOMAIN orders : orders'[x] = orders[x]]_vars

\* two successful requests of one customer with one cart: two pending orders
C18_Witness ==
    /\ init = Idle
    /\ \E o1, o2 \in DOMAIN orders :
           /\ o1 # o2
           /\ orders[o1].status = "pending" /\ orders[o2].status = "pending"
           /\ orders[o1].userId = orders[o2].userId
           /\ orders[o1].stripeSessionId # Null /\ orders[o2].stripeSessionId # Null

\* C19: a capture request for a PayPal order that an earlier request has
\* captured is answered as the first one was, with 200 and status COMPLETED
\* under the same capture id, and leaves the order paid.
C19_SecondCaptureSucceeds ==
    [][\A k \in 1..Len(sessions) :
          (/\ cap = Idle
           /\ sessions[k].proc = "paypal"
           /\ sessions[k].phase[1] = "completed"
           /\ resp'.ep = "capturePayPalOrder") =>
              /\ resp'.code = 200
              /\ resp'.status = "COMPLETED"
              /\ resp'.captureId = k
              /\ \A o \in OrdersOf(k) : o \in DOMAIN orders' /\ orders'[o].status = "paid"]_vars

\* C20: a capture request whose capture PayPal did not complete, or whose
\* capture call failed, is answered outside the 2xx range, with PayPal's own
\* status when PayPal reported one, and writes neither an order nor a history
\* record: a pending order stays pending.
C20_FailedCaptureChangesNothing ==
    [][(cap = Idle /\ resp'.ep = "capturePayPalOrder") =>
          /\ resp'.code \notin 200..299
          /\ resp'.status # "COMPLETED"
          /\ resp'.code = 400 => resp'.status \in CaptureStatuses \ {"COMPLETED"}
          /\ resp'.code # 400 => resp'.code \in {ErrorStatus(e) : e \in ProcessorErrorStatuses}
          /\ orders' = orders
          /\ history' = history]_vars

\* PayPal declined the capture of an order that is in the store, still pending
C20_Witness ==
    /\ resp.ep = "capturePayPalOrder"
    /\ resp.code = 400
    /\ resp.status = "DECLINED"
    /\ \E o \in DOMAIN orders :
           orders[o].paypalOrderId # Null /\ orders[o].status = "pending"

\* C21: a verified, acknowledged webhook delivery that takes an order from
\* pending to paid sets its paidAt, and leaves a record of the order in the
\* owner's history exactly when the order has a userId.
C21_CompletionMirroredForOwner ==
    [][(resp'.ep \in Webhooks /\ resp'.code = 200 /\ resp'.verify = "passed") =>
          \A o \in DOMAIN orders :
              (orders[o].status = "pending" /\ orders'[o].status = "paid") =>
                  /\ orders'[o].paidAt # Null
                  /\ orders'[o].userId # Null <=>
                         <<orders'[o].userId, o>> \in DOMAIN history']_vars

\* C22: every order that has an owner and has left pending has a record in
\* the owner's history with the order's status and amountTotal.
C22_HistoryMirrorsOrder ==
    \A o \in DOMAIN orders :
        (orders[o].userId # Null /\ orders[o].status # "pending") =>
            /\ <<orders[o].userId, o>> \in DOMAIN history
            /\ history[<<orders[o].userId, o>>].status = orders[o].status
            /\ history[<<orders[o].userId, o>>].amountTotal = orders[o].amountTotal

\* the event types each webhook has a case for
RecognizedStripeTypes == {"checkout.session.completed", "checkout.session.expired",
                          "payment_intent.payment_failed", "charge.refunded"}

RecognizedPayPalTypes == {"PAYMENT.CAPTURE.COMPLETED", "PAYMENT.CAPTURE.DENIED",
                          "PAYMENT.CAPTURE.REFUNDED"}

\* an order answers one of the lookups the handler of e's type makes
StripeResolves(e) ==
    IF e.type \in {"checkout.session.completed", "checkout.session.expired"}
    THEN \/ FindBy(orders, "stripeSessionId", e.session) # Null
         \/ e.metaOrderId # Null /\ e.metaOrderId \in DOMAIN orders
    ELSE FindBy(orders, "stripePaymentIntentId", PaymentIntentOf(e.session)) # Null

PayPalResolves(e) ==
    IF e.type = "PAYMENT.CAPTURE.REFUNDED"
    THEN FindBy(orders, "paypalCaptureId", e.capture) # Null
    ELSE e.customId # Null /\ e.customId \in DOMAIN orders

\* the events that pass verification in this state
VerifiedStripeEvents == {e \in AuthenticStripeEvents : constructEventOk(e)}

VerifiedPayPalEvents ==
    {e \in AuthenticPayPalEvents : "passed" \in verifyWebhookSignature(e, webhookIdSet)}

\* C23: in every state, each webhook answers a verified event of a type it
\* handles, for which its lookups find no order, with 200 and leaves orders
\* and history as they are.
C23_UnresolvedEventAcknowledged ==
    /\ \A e \in VerifiedStripeEvents :
           (e.type \in RecognizedStripeTypes /\ ~StripeResolves(e)) =>
               LET r == stripeWebhook(Store, e, clock)
               IN r.resp.code = 200 /\ r.orders = orders /\ r.history = history
    /\ \A e \in VerifiedPayPalEvents :
           (e.type \in RecognizedPayPalTypes /\ ~PayPalResolves(e)) =>
               LET r == paypalWebhook(Store, e, "passed", clock)
               IN r.resp.code = 200 /\ r.orders = orders /\ r.history = history

\* Stripe's completion of a paid session was acknowledged while the store held
\* no order at all
C23_Witness ==
    /\ resp.ep = "stripeWebhook" /\ resp.code = 200 /\ resp.verify = "passed"
    /\ orders = << >>
    /\ \E k \in 1..Len(sessions) : <<k, "checkout.session.completed">> \in acked
    /\ \E e \in VerifiedStripeEvents :
           e.type = "checkout.session.completed" /\ ~StripeResolves(e)

\* C24: in every state, each webhook answers a verified event of a type it
\* has no case for with 200 and leaves orders and history as they are.
C24_UnknownTypeIgnored ==
    /\ \A e \in VerifiedStripeEvents :
           e.type \notin RecognizedStripeTypes =>
               LET r == stripeWebhook(Store, e, clock)
               IN r.resp.code = 200 /\ r.orders = orders /\ r.history = history
    /\ \A e \in VerifiedPayPalEvents :
           e.type \notin RecognizedPayPalTypes =>
               LET r == paypalWebhook(Store, e, "passed", clock)
               IN r.resp.code = 200 /\ r.orders = orders /\ r.history = history

\* a verified delivery was acknowledged while Stripe had an event of an
\* unhandled type to send about the open session of a stored pending order
C24_Witness ==
    /\ resp.ep = "stripeWebhook" /\ resp.code = 200 /\ resp.verify = "passed"
    /\ \E e \in VerifiedStripeEvents :
           /\ e.type = "other"
           /\ \E o \in DOMAIN orders :
                  orders[o].stripeSessionId = e.session /\ orders[o].status = "pending"
    /\ \A k \in 1..Len(sessions) : \A j \in DOMAIN sessions[k].phase :
           sessions[k].phase[j] = "open"

\* the unit prices of the price tables, in cents
EnginePrices ==
    UNION {{SkuTiers(id)[t] : t \in 1..3} : id \in Skus}

\* the sum over the lines sent of unit amount times quantity
RECURSIVE LinesTotal(_)
LinesTotal(lines) ==
    IF Len(lines) = 0 THEN 0
    ELSE lines[1].unit_amount * lines[1].quantity + LinesTotal(Tail(lines))

\* C29: every unit amount an initiator has sent to its processor is a whole
\* number of cents taken from the price tables; the one price of a payment
\* link is the sum over the cart of the items' unit amounts times their
\* quantities, and the amount of a PayPal order is the sum over its lines.
C29_WholeCentsAndTotals ==
    init # Idle =>
        CASE init.path = "checkout" ->
                 \A i \in DOMAIN init.params :
                     /\ init.params[i].unit_amount \in EnginePrices
                     /\ init.params[i].quantity = init.items[i].quantity
          [] init.path = "link" ->
                 /\ Len(init.params) = 1
                 /\ init.params[1].quantity = 1
                 /\ init.params[1].unit_amount \in Nat
                 /\ init.params[1].unit_amount =
                        LinesTotal([i \in DOMAIN init.items |->
                                       [unit_amount |-> unitAmount(init.items[i]),
                                        quantity |-> init.items[i].quantity]])
          [] OTHER ->
                 /\ \A i \in DOMAIN init.params.items :
                        /\ init.params.items[i].unit_amount \in EnginePrices
                        /\ init.params.items[i].quantity = init.items[i].quantity
                 /\ init.params.amount \in Nat
                 /\ init.params.amount = LinesTotal(init.params.items)

\* a payment link for a cart of two lines, one of them at the lowest tier
C29_Witness ==
    /\ init # Idle
    /\ init.path = "link"
    /\ Len(init.items) = 2
    /\ init.items[1].quantity = Tier2Threshold
    /\ init.items[2].quantity = 1

\* C25: whatever the key holds, loadCart of js/cart.js and of
\* assets/js/cart-manager.js end without a throw with a list, the empty one
\* unless the stored value is an array, of structurally valid entries only.
C25_LoadValidates ==
    LET c == loadCart(storage)
        m == managerLoadCart(ListOf(<< >>), storage)
    IN /\ storage.kind # "array" => c = << >>
       /\ \A i \in DOMAIN c : StructurallyValid(c[i])
       /\ m.kind = "array"
       /\ storage.kind # "array" => m.items = << >>
       /\ \A i \in DOMAIN m.items : StructurallyValid(m.items[i])

\* C26: the page's cart holds at most one line for an id, and every line's
\* quantity is at least 1.
C26_OneLinePerSku ==
    /\ \A i, j \in DOMAIN cart :
           i # j => Field(cart[i], "id") # Field(cart[j], "id")
    /\ \A i \in DOMAIN cart : cart[i].quantity.n >= 2 * 1

\* C27: a call that has changed the page's cart has, when it returns, written
\* the new cart under the key and then called every listener, in the order
\* they subscribed and whatever an earlier one threw, with the new cart; and
\* subscribe calls the listener it adds with the cart as it is.
C27_SavedThenNotified ==
    [][/\ (calls' = calls + 1 /\ cart' # cart) =>
              /\ ended' = "returned"
              /\ storage' = Stringify(cart')
              /\ Len(effects') >= 1 + Len(listeners)
              /\ effects'[1] = Effect("setItem", 0, cart')
              /\ \A i \in 1..Len(listeners) :
                     effects'[1 + i] = Effect("callback", i, cart')
       /\ Len(listeners') = Len(listeners) + 1 =>
              /\ cart' = cart
              /\ effects' = <<Effect("callback", Len(listeners'), cart)>>]_vars

\* a cart just changed and saved on a page whose first listener throws and
\* whose second was called all the same
C27_Witness ==
    /\ listeners = <<"throws", "ok">>
    /\ calls > 0
    /\ cart # << >>
    /\ storage = Stringify(cart)
    /\ Len(effects) = 4
    /\ effects[1].kind = "setItem"
    /\ effects[3] = Effect("callback", 2, cart)

\* C28: once the storage event of another tab's write has been handled, the
\* page's cart is what loadCart makes of the stored value, every listener has
\* been called with it, and CartManager.cart is that validated list too.
C28_StorageEventReloads ==
    [][(storageEvent /\ ~storageEvent') =>
          /\ cart' = loadCart(storage')
          /\ \A i \in 1..Len(listeners') :
                 \E k \in DOMAIN effects' : effects'[k] = Effect("callback", i, cart')
          /\ managerCart' = ListOf(loadCart(storage'))]_vars

\* C30: whatever cart a call of addItem, removeItem, updateQuantity or
\* clearCart leaves, saving it and loading it again gives the same cart.
C30_SaveLoadRoundTrip ==
    [][(calls' = calls + 1 /\ storageEvent' = storageEvent) =>
          loadCart(Stringify(cart')) = cart']_vars

\* the cart c without its k-th line
WithoutLine(c, k) == SubSeq(c, 1, k - 1) \o SubSeq(c, k + 1, Len(c))

\* C31: whenever the page's cart has a line with an id the page can hand to
\* removeItem, removeItem(id) gives the cart without exactly one line, a line
\* of that id, the other lines as they were and in their order, and
\* getItemCount() falls by that line's quantity, which is more than nothing.
C31_RemoveExactlyThatLine ==
    \A id \in CallIds :
        (\E k \in DOMAIN cart : Field(cart[k], "id") = JStr(id)) =>
            \E k \in DOMAIN cart :
                /\ Field(cart[k], "id") = JStr(id)
                /\ removeItem(cart, id) = WithoutLine(cart, k)
                /\ cart[k].quantity.n > 0
                /\ getItemCount(removeItem(cart, id))
                       = getItemCount(cart) - cart[k].quantity.n

\* C32: whenever the order of a checkout is in the store and pending, the
\* handling of a verified payment-failure event of that checkout
\* (payment_intent.payment_failed, PAYMENT.CAPTURE.DENIED) leaves the order
\* with status payment_failed.
C32_FailureResolvesPendingOrder ==
    /\ \A e \in AuthenticStripeEvents :
           e.type = "payment_intent.payment_failed" =>
               \A o \in OrdersOf(e.obj) :
                   orders[o].status = "pending" =>
                       stripeWebhook(Store, e, clock).orders[o].status = "payment_failed"
    /\ \A e \in AuthenticPayPalEvents :
           e.type = "PAYMENT.CAPTURE.DENIED" =>
               \A o \in OrdersOf(e.capture) :
                   orders[o].status = "pending" =>
                       paypalWebhook(Store, e, "passed", clock).orders[o].status
                           = "payment_failed"

\* C33: whenever an order written by createPayPalOrder is still pending after
\* PayPal captured its payment, the handling of the verified
\* PAYMENT.CAPTURE.COMPLETED event of that capture leaves the order paid, with
\* the event's capture id and amount.
C33_WebhookAloneMarksPaid ==
    \A e \in AuthenticPayPalEvents :
        e.type = "PAYMENT.CAPTURE.COMPLETED" =>
            \A o \in OrdersOf(e.capture) :
                orders[o].status = "pending" =>
                    LET after == paypalWebhook(Store, e, "passed", clock).orders[o]
                    IN /\ after.status = "paid"
                       /\ after.paypalCaptureId = e.capture
                       /\ after.amountTotal = e.amount

\* the statuses of an order whose payment can be refunded
Refundable == {"paid", "partially_refunded"}

\* the status of an order of which total has been refunded, of captured
RefundStatus(total, captured) ==
    IF total = captured THEN "refunded" ELSE "partially_refunded"

\* C34: whenever an order stands paid (or partially refunded) by the payment
\* of a checkout, with the captured amount as its amountTotal, the handling of
\* a verified refund event of that payment leaves it refunded when the refunds
\* so far total the captured amount and partially_refunded when they total
\* less, with the refunded amount the event reports.  Stripe's charge reports
\* the total refunded so far (amount_refunded); PayPal's event is about one
\* refund and reports the amount of that refund, the last of those so far.
C34_RefundStatusByTotal ==
    \A k \in 1..Len(sessions) :
        \A total \in 1..sessions[k].amount, o \in OrdersOf(k) :
            /\ \A j \in DOMAIN sessions[k].phase :
                   (/\ sessions[k].proc # "paypal"
                    /\ sessions[k].phase[j] = "completed"
                    /\ orders[o].status \in Refundable
                    /\ orders[o].stripePaymentIntentId
                           = PaymentIntentOf(StripeSessionId(k, j))) =>
                       LET e == StripeEvent("charge.refunded", k, StripeSessionId(k, j),
                                            sessions[k].metaOrderId, sessions[k].amount,
                                            total, TRUE)
                           after == stripeWebhook(Store, e, clock).orders[o]
                       IN /\ after.status = RefundStatus(total, sessions[k].amount)
                          /\ after.refundedAmount = total
            /\ \A last \in 1..total :
                   (/\ sessions[k].proc = "paypal"
                    /\ sessions[k].phase[1] = "completed"
                    /\ orders[o].status \in Refundable
                    /\ orders[o].paypalCaptureId = k
                    /\ orders[o].amountTotal = sessions[k].amount) =>
                       LET e == PayPalEvent("PAYMENT.CAPTURE.REFUNDED", k, Null, last, TRUE)
                           after == paypalWebhook(Store, e, "passed", clock).orders[o]
                       IN /\ after.status = RefundStatus(total, sessions[k].amount)
                          /\ after.refundedAmount = last

\* items.map(item => ({ id, name, price: item.price, quantity, ... })): the
\* items of the order document each initiator writes, with the fields read here
OrderItems(items) ==
    [i \in DOMAIN items |-> [id |-> ItemId(items[i]),
                             price |-> items[i].price,
                             quantity |-> items[i].quantity]]

\* C35: whatever prices the client wrote into the items of the request in
\* flight, the unit price of each item of the order document the request
\* writes is, in cents, the unit price the initiator computed for that item.
C35_StoredPriceIsEnginePrice ==
    init # Idle =>
        \A c \in Repricings(init.items) :
            \A i \in DOMAIN c :
                OrderItems(c)[i].price * CentsPerDollar
                    = UnitPriceSent(init.path, init.items[i])

\* C36: a checkout request without userId that gets past validation carries a
\* customerEmail, and the pending order it writes has userId null; no write
\* to an order without userId adds or changes a history document.
C36_GuestCheckout ==
    [][/\ (init' # Idle /\ init'.userId = Null) => init'.customerEmail # Null
       /\ (init # Idle /\ init.userId = Null /\ init' = Idle) =>
              \E o \in DOMAIN orders' \ DOMAIN orders :
                  orders'[o].status = "pending" /\ orders'[o].userId = Null
       /\ (\A o \in DOMAIN orders : orders[o].userId = Null) => history' = history]_vars

\* C37: for the cart of the request in flight, whichever initiator it went
\* to, the purchase unit createPayPalOrder builds and the line items
\* createCheckoutSession builds give every item the same unit price in cents
\* and the cart the same total; what the request sent is one of the two.
C37_SamePricingEngine ==
    init # Idle =>
        LET stripe == validateAndBuildLineItems(init.items).lineItems
            paypal == buildPurchaseUnit(init.items, init.orderId)
        IN /\ \A i \in DOMAIN init.items :
                  /\ paypal.items[i].unit_amount = stripe[i].unit_amount
                  /\ paypal.items[i].quantity = stripe[i].quantity
           /\ paypal.amount = totalAmount(stripe)
           /\ init.path = "paypal" => init.params = paypal
           /\ init.path = "checkout" => init.params = stripe

\* C37's case: a PayPal order was requested for two different products, one
\* of them in the quantity of the lowest price, and the amounts were sent.
C37_Witness ==
    /\ init # Idle
    /\ init.path = "paypal"
    /\ Len(init.items) = 2
    /\ init.items[1].id # init.items[2].id
    /\ init.items[1].quantity = Tier2Threshold
    /\ init.items[2].quantity = 1
    /\ init.params.amount = ToFixed2(45 * Tier2Threshold + 42)

\* the verified events stripeWebhook hands to updateOrderLookup
LookupEvents ==
    {e \in VerifiedStripeEvents :
        e.type \in {"checkout.session.completed", "checkout.session.expired"}}

\* C38: handling a verified session event that only the order id of its
\* metadata resolves leaves that order with the event's session id as
\* stripeSessionId, found by it from then on; handling one that the
\* stripeSessionId lookup resolves leaves the order's stripeSessionId as it
\* was; and an order the stripeSessionId lookup finds for a session is the
\* order it finds for that session after every later step.
C38_FallbackBindsSession ==
    [][\A e \in LookupEvents :
          LET primary == FindBy(orders, "stripeSessionId", e.session)
              after == stripeWebhook(Store, e, clock).orders
          IN /\ (primary = Null /\ e.metaOrderId \in DOMAIN orders) =>
                    /\ after[e.metaOrderId].stripeSessionId = e.session
                    /\ FindBy(after, "stripeSessionId", e.session) = e.metaOrderId
             /\ primary # Null =>
                    /\ after[primary].stripeSessionId = orders[primary].stripeSessionId
                    /\ FindBy(orders', "stripeSessionId", e.session) = primary]_vars

\* the verified PAYMENT.CAPTURE.COMPLETED events of the capture in flight
CompletedEventsOf(c) ==
    {e \in VerifiedPayPalEvents :
        e.type = "PAYMENT.CAPTURE.COMPLETED" /\ e.capture = c.captureId}

\* The ends of the capture request in flight and one delivery of e, for the
\* order o the request's lookup finds: the webhook before the lookup, between
\* the lookup and the transaction, and after the transaction.
CaptureAndWebhook(o, e) ==
    LET webhook(st) == LET r == paypalWebhook(st, e, "passed", clock)
                       IN [orders |-> r.orders, history |-> r.history]
    IN {captureTransaction(webhook(Store), o, cap, clock),
        captureWrite(webhook(Store), o, orders[o], cap, clock),
        webhook(captureTransaction(Store, o, cap, clock))}

\* C39: whenever a capture request has captured the payment of an order the
\* store holds, every order of its transaction and the handling of the
\* verified PAYMENT.CAPTURE.COMPLETED event of that capture ends with the
\* order paid, with the capture's id and amount, and with the history record
\* of an order that has an owner.
C39_CaptureAndWebhookCommute ==
    cap # Idle =>
        LET o == FindBy(orders, "paypalOrderId", cap.order)
        IN o # Null =>
               \A e \in CompletedEventsOf(cap) :
                   \A end \in CaptureAndWebhook(o, e) :
                       /\ end.orders[o].status = "paid"
                       /\ end.orders[o].paypalCaptureId = cap.captureId
                       /\ end.orders[o].amountTotal = cap.amount
                       /\ end.orders[o].amountTotal = e.amount
                       /\ orders[o].userId # Null =>
                              /\ <<orders[o].userId, o>> \in DOMAIN end.history
                              /\ end.history[<<orders[o].userId, o>>].status = "paid"

\* C39's case: the webhook of the capture has marked an owner's order paid
\* while the capture request is between PayPal's answer and its transaction.
C39_Witness ==
    /\ cap # Idle
    /\ \E o \in DOMAIN orders :
           /\ orders[o].paypalOrderId = cap.order
           /\ orders[o].status = "paid"
           /\ orders[o].paypalCaptureId = cap.captureId
           /\ orders[o].userId # Null
           /\ <<orders[o].userId, o>> \notin DOMAIN history
           /\ \E e \in CompletedEventsOf(cap) : e.customId = o

====
